---- MODULE Spec2Model ----
(***************************************************************************)
(* A model of little_pipelines: the Pipeline orchestrator                  *)
(* (src/little_pipelines/_pipeline.py), the Task run-state                 *)
(* (_tasks.py), the hashing glue (_hashing.py), the process-wide           *)
(* on_complete list and the expiry arithmetic (expire.py).                 *)
(*                                                                         *)
(* Encodings.  Every value that is stored in the cache is a sequence of    *)
(* naturals, so that any two of them can be compared:                      *)
(*   None                       <<>>                                       *)
(*   a run's return value k     <<k>>        (k >= 1)                      *)
(*   the string ""              <<3>>                                      *)
(*   the string "HASHERROR"     <<0>>                                      *)
(*   sha256 of file content c   <<1, c>>     (c >= 1)                      *)
(*   sha256 of digests d1..dn   <<2>> \o d1 \o ... \o dn                   *)
(* sha256 is taken to be collision free: distinct inputs, distinct         *)
(* encodings.  A file content is a version number; NoFile is a path that   *)
(* cannot be read.                                                         *)
(***************************************************************************)
EXTENDS Integers, Sequences, FiniteSets, TLC

VARIABLES
    _tasks,                 \* Pipeline._tasks: the Task objects, in add order
    failures,               \* Pipeline.failures: set of task names
    expire_results_if_none, \* Pipeline.expire_results_if_none
    cache,                  \* the diskcache store of the pipeline name: key -> entry
    _on_complete_deletions, \* expire._on_complete_deletions (process wide)
    fs,                     \* the file system: path -> content
    pc,                     \* where Pipeline.execute is: "idle" or in its "loop"
    tasks,                  \* execute's local `tasks` (indices into _tasks), or the
                            \* last sequence the Pipeline.tasks property produced
    idx,                    \* position of the for loop in `tasks`
    args,                   \* execute's arguments: force, force_tasks, skip_tasks
    counts,                 \* execute's locals nexec, nskip, nfail
    raised,                 \* the exception the last call let escape, or "none"
    log,                    \* per task index: the last line execute logged for it
    ran,                    \* task indices whose run was invoked in this call
    io,                     \* cache keys read / written while the last task was handled
    hist,                   \* what the calls so far did, for the two-run claims
    ncalls,                 \* number of execute calls so far
    now,                    \* what expire._get_now() returns
    evaluation              \* the last expiry computation: its arguments and outcome

vars == <<_tasks, failures, expire_results_if_none, cache, _on_complete_deletions,
          fs, pc, tasks, idx, args, counts, raised, log, ran, io, hist, ncalls,
          now, evaluation>>

-----------------------------------------------------------------------------
(* Bounds of the model *)

MaxTasks == 3
MaxCalls == 2
MaxEdits == 1
MaxExits == 2

Names == {"A", "B", "C"}
NameSeq == <<"A", "B", "C">>
Paths == {"script", "in1", "in2"}

-----------------------------------------------------------------------------
(* Sequence helpers *)

Range(s) == {s[i] : i \in 1..Len(s)}

RECURSIVE SeqsUpTo(_, _)
SeqsUpTo(S, n) ==
    IF n = 0 THEN {<<>>}
    ELSE LET shorter == SeqsUpTo(S, n - 1)
         IN  shorter \cup {Append(s, x) : s \in shorter, x \in S}

\* sequences over S without repetition, of length at most n
DistinctSeqs(S, n) == {s \in SeqsUpTo(S, n) : Cardinality(Range(s)) = Len(s)}

AppendNew(s, x) == IF x \in Range(s) THEN s ELSE Append(s, x)

RECURSIVE AppendAllNew(_, _)
AppendAllNew(s, xs) ==
    IF xs = <<>> THEN s ELSE AppendAllNew(AppendNew(s, Head(xs)), Tail(xs))

-----------------------------------------------------------------------------
(* Values, digests, cache entries *)

None == <<>>
EmptyStr == <<3>>
HASHERROR == <<0>>
NoFile == 0
NoPath == "None"

Sha256OfContent(c) == <<1, c>>
Sha256OfText(s) == <<2>> \o s

\* _hashing.hash_file: the digest of the content, "HASHERROR" when the file
\* cannot be opened or read (OSError); f is the file system at the time
hash_file(f, path) ==
    IF path \notin DOMAIN f \/ f[path] = NoFile
    THEN HASHERROR
    ELSE Sha256OfContent(f[path])

RECURSIVE ConcatHashes(_, _)
ConcatHashes(f, files) ==
    IF files = <<>> THEN <<>>
    ELSE hash_file(f, Head(files)) \o ConcatHashes(f, Tail(files))

\* _hashing.hash_files(*files): the digest of the concatenated digests
hash_files(f, files) == Sha256OfText(ConcatHashes(f, files))

\* Task._script_hash: hash_file of the script; a Task built where no __file__
\* exists has _script_path None, open(None) raises TypeError and the bare
\* except returns ""
_script_hash(f, t) ==
    IF t._script_path = NoPath THEN EmptyStr ELSE hash_file(f, t._script_path)

\* Task._inputs_hash: the loop overwrites h for every input, so the value is
\* hash_files of the last input alone
RECURSIVE InputsLoop(_, _, _)
InputsLoop(f, h, inputs) ==
    IF inputs = <<>> THEN h
    ELSE InputsLoop(f, hash_files(f, <<Head(inputs)>>), Tail(inputs))

_inputs_hash(f, t) ==
    IF t.input_files # <<>> /\ t.hash_inputs
    THEN InputsLoop(f, EmptyStr, t.input_files)
    ELSE EmptyStr

HashKey(name) == name \o "_hashes"
Keys == Names \cup {HashKey(n) : n \in Names}

Absent == [tag |-> "ABSENT", value |-> None, script |-> None, inputs |-> None]
ResultEntry(v) == [tag |-> "RESULTS", value |-> v, script |-> None, inputs |-> None]
HashesEntry(s, i) == [tag |-> "HASHES", value |-> <<1>>, script |-> s, inputs |-> i]

EmptyCache == [k \in Keys |-> Absent]

\* Cache.get(key): the stored value, None when the key is absent
CacheGet(c, key) == c[key].value

\* mutant: the eviction removes the entries of the other tag
CacheEvictOtherTag(c, tag) ==
    [k \in DOMAIN c |-> IF c[k].tag # "ABSENT" /\ c[k].tag # tag
                        THEN [tag |-> "ABSENT", value |-> None, script |-> None,
                              inputs |-> None]
                        ELSE c[k]]

\* mutant: the eviction clears the whole cache
CacheEvictAll(c, tag) == [k \in Keys |-> Absent]

\* Cache.evict(tag)
CacheEvict(c, tag) == [k \in Keys |-> IF c[k].tag = tag THEN Absent ELSE c[k]]

\* Cache.delete(key)
CacheDelete(c, key) == [c EXCEPT ![key] = Absent]

\* mutant: the deletions leave the cache as it was
CacheDeleteNone(c, keys) == c

RECURSIVE CacheDeleteAll(_, _)
CacheDeleteAll(c, keys) ==
    IF keys = {} THEN c
    ELSE LET k == CHOOSE x \in keys : TRUE
         IN  CacheDeleteAll(CacheDelete(c, k), keys \ {k})

-----------------------------------------------------------------------------
(* Pipeline.tasks: graphlib.TopologicalSorter(deps).static_order()         *)

\* the dict comprehension {dep.name: dep._dependency_names for dep in _tasks}:
\* keys in order of first insertion, the value of the last task of that name
RECURSIVE DictKeys(_)
DictKeys(ts) ==
    IF ts = <<>> THEN <<>>
    ELSE AppendNew(DictKeys(SubSeq(ts, 1, Len(ts) - 1)), ts[Len(ts)]._name)

LastIndex(ts, name) ==
    LET hits == {i \in 1..Len(ts) : ts[i]._name = name}
    IN  IF hits = {} THEN 0 ELSE CHOOSE i \in hits : \A j \in hits : j <= i

DictVal(ts, name) == ts[LastIndex(ts, name)]._dependency_names

\* TopologicalSorter.add for every item: the node, then its predecessors,
\* enter _node2info in this order
RECURSIVE NodeOrder(_, _, _)
NodeOrder(ts, keys, acc) ==
    IF keys = <<>> THEN acc
    ELSE NodeOrder(ts, Tail(keys),
                   AppendAllNew(AppendNew(acc, Head(keys)), DictVal(ts, Head(keys))))

Nodes(ts) == NodeOrder(ts, DictKeys(ts), <<>>)

IsKey(ts, n) == LastIndex(ts, n) # 0

\* nodeinfo.npredecessors after every add
NPred(ts, n) == IF IsKey(ts, n) THEN Len(DictVal(ts, n)) ELSE 0

\* nodeinfo.successors of p: every key once per occurrence of p among its
\* predecessors, keys in dict order
RECURSIVE CountIn(_, _)
CountIn(s, x) ==
    IF s = <<>> THEN 0
    ELSE (IF Head(s) = x THEN 1 ELSE 0) + CountIn(Tail(s), x)

RECURSIVE Repeat(_, _)
Repeat(x, n) == IF n = 0 THEN <<>> ELSE <<x>> \o Repeat(x, n - 1)

RECURSIVE SuccOf(_, _, _)
SuccOf(ts, keys, p) ==
    IF keys = <<>> THEN <<>>
    ELSE Repeat(Head(keys), CountIn(DictVal(ts, Head(keys)), p))
         \o SuccOf(ts, Tail(keys), p)

Successors(ts, p) == SuccOf(ts, DictKeys(ts), p)

\* a node reaches itself along predecessor edges (what _find_cycle detects)
RECURSIVE ReachFrom(_, _, _)
ReachFrom(ts, frontier, seen) ==
    LET next == UNION {IF IsKey(ts, n) THEN Range(DictVal(ts, n)) ELSE {} : n \in frontier}
        new == next \ seen
    IN  IF new = {} THEN seen ELSE ReachFrom(ts, new, seen \cup new)

\* the names name depends on, directly or transitively
Upstream(ts, name) == ReachFrom(ts, {name}, {})

\* mutant: no cycle is ever reported
NeverCycle(ts) == FALSE

\* TopologicalSorter.prepare: _find_cycle finds a cycle and CycleError is raised
HasCycle(ts) == \E n \in Range(Nodes(ts)) : n \in Upstream(ts, n)

\* TopologicalSorter.done(*nodes): every successor loses one predecessor and
\* joins _ready_nodes when it reaches zero
\* mutant: a successor becomes ready as soon as one predecessor is done
RECURSIVE DoneSuccEager(_, _)
DoneSuccEager(succs, st) ==
    IF succs = <<>> THEN st
    ELSE LET s == Head(succs)
         IN  DoneSuccEager(Tail(succs),
                           [np |-> [st.np EXCEPT ![s] = st.np[s] - 1],
                            ready |-> AppendNew(st.ready, s)])

RECURSIVE DoneSucc(_, _)
DoneSucc(succs, st) ==
    IF succs = <<>> THEN st
    ELSE LET s == Head(succs)
             n == st.np[s] - 1
         IN  DoneSucc(Tail(succs),
                      [np |-> [st.np EXCEPT ![s] = n],
                       ready |-> IF n = 0 THEN Append(st.ready, s) ELSE st.ready])

RECURSIVE DoneNodes(_, _, _)
DoneNodes(ts, nodes, st) ==
    IF nodes = <<>> THEN st
    ELSE DoneNodes(ts, Tail(nodes), DoneSucc(Successors(ts, Head(nodes)), st))

\* static_order's loop: get_ready, yield the group, done(*group)
RECURSIVE StaticLoop(_, _, _)
StaticLoop(ts, st, out) ==
    IF st.ready = <<>> THEN out
    ELSE StaticLoop(ts, DoneNodes(ts, st.ready, [np |-> st.np, ready |-> <<>>]),
                    out \o st.ready)

static_order(ts) ==
    LET nodes == Nodes(ts)
        np == [n \in Range(nodes) |-> NPred(ts, n)]
        ready == SelectSeq(nodes, LAMBDA n : np[n] = 0)
    IN  StaticLoop(ts, [np |-> np, ready |-> ready], <<>>)

\* mutant: an unknown name resolves to the first task added
get_task_lenient(ts, name) ==
    IF LastIndex(ts, name) = 0 /\ ts # <<>> THEN 1 ELSE LastIndex(ts, name)

\* Pipeline.get_task: the dict {task.name: task} keeps the last task of a name;
\* 0 stands for the KeyError
get_task(ts, name) == LastIndex(ts, name)

\* Pipeline.tasks, consumed to the end: the task indices in execution order,
\* or the exception the generator raises (CycleError from prepare() before
\* anything is yielded, KeyError from get_task at the first unknown name)
TasksOf(ts) ==
    IF HasCycle(ts) THEN [err |-> "CycleError", seq |-> <<>>]
    ELSE LET names == static_order(ts)
         IN  IF \E i \in 1..Len(names) : get_task(ts, names[i]) = 0
             THEN [err |-> "KeyError", seq |-> <<>>]
             ELSE [err |-> "none",
                   seq |-> [i \in 1..Len(names) |-> get_task(ts, names[i])]]

-----------------------------------------------------------------------------
(* Task and Pipeline operations *)

\* the expire_results argument left out
NoExpiry == "None"

\* Task.__init__: the run-state starts false; has_run tells whether a run
\* process was registered with @task.process; without an expire_results
\* argument the policy is expire.after_session(name)
Task(name, deps, policy, expiry, script, inputs, hashing, runnable) ==
    [_name |-> name, _dependency_names |-> deps, if_upstream_errors |-> policy,
     expire_results |-> IF expiry = NoExpiry THEN "after_session" ELSE expiry,
     _script_path |-> script, input_files |-> inputs,
     hash_inputs |-> hashing, has_run |-> runnable,
     _executed |-> FALSE, _skipped |-> FALSE]

\* expire.on_complete(task_name) appends the name to the process-wide list when
\* the policy is built; the list is only ever read afterwards
Registered(ts) == {ts[i]._name : i \in {j \in 1..Len(ts) : ts[j].expire_results = "on_complete"}}

\* mutant: an executed task does not count as complete
is_complete_skipped(ts) ==
    LET order == TasksOf(ts)
    IN  [err |-> order.err,
         value |-> order.err = "none"
                   /\ \A k \in 1..Len(order.seq) : ts[order.seq[k]]._skipped]

\* Pipeline.is_complete: all() over the Pipeline.tasks property, which raises
\* what the scheduler raises
is_complete(ts) ==
    LET order == TasksOf(ts)
    IN  [err |-> order.err,
         value |-> order.err = "none"
                   /\ \A k \in 1..Len(order.seq) :
                         ts[order.seq[k]]._executed \/ ts[order.seq[k]]._skipped]

\* mutant: only the first task without a run process is collected
run_errors_first(ts) ==
    LET e == SelectSeq([i \in 1..Len(ts) |-> ts[i]], LAMBDA t : ~t.has_run)
    IN  IF e = <<>> THEN e ELSE <<e[1]>>

\* Pipeline.validate_tasks: the names of the tasks without a run process
run_errors(ts) == SelectSeq([i \in 1..Len(ts) |-> ts[i]], LAMBDA t : ~t.has_run)

\* Pipeline.validate_tasks: AttributeError, its message joining the collected
\* names, when the list is not empty
validate_tasks(ts) ==
    LET e == run_errors(ts)
    IN  [err |-> IF e # <<>> THEN "AttributeError" ELSE "none",
         names |-> [i \in 1..Len(e) |-> e[i]._name]]

\* mutant: any recorded failure counts as a failed dependency
failed_deps_any(t, failed) == failed

\* mutant: the task's own name is looked up in failures, not its dependencies
failed_deps_self(t, failed) == {t._name} \cap failed

\* Pipeline.check_failed_dependencies: set(task.dependencies) & self.failures
failed_deps(t, failed) == Range(t._dependency_names) \cap failed

\* mutant: the two hashes are stored under each other's key
_cache_result_swapped(c, f, t, result) ==
    [c EXCEPT ![t._name] = ResultEntry(result),
              ![t._name \o "_hashes"] = HashesEntry(_inputs_hash(f, t), _script_hash(f, t))]

\* Pipeline._cache_result: the result under the task's name (tag RESULTS, the
\* policies modelled here return None: no TTL), then the hashes (tag HASHES)
_cache_result(c, f, t, result) ==
    [c EXCEPT ![t._name] = ResultEntry(result),
              ![HashKey(t._name)] = HashesEntry(_script_hash(f, t), _inputs_hash(f, t))]

\* execute, lines 202-211: the checkpoint is reused when the cached result is
\* not None and both cached hashes equal the task's current hashes; a missing
\* hashes entry reads as dict(), whose .get() gives None, equal to no hash
has_same_script(c, f, t) ==
    c[HashKey(t._name)].tag # "ABSENT" /\ c[HashKey(t._name)].script = _script_hash(f, t)

has_same_inputs(c, f, t) ==
    c[HashKey(t._name)].tag # "ABSENT" /\ c[HashKey(t._name)].inputs = _inputs_hash(f, t)

UseCached(c, f, t) ==
    CacheGet(c, t._name) # None /\ has_same_inputs(c, f, t) /\ has_same_script(c, f, t)

\* mutant: the two argument lists are taken for each other
SkipPerUserSwapped(t, a) == t._name \in a.force_tasks /\ t._name \notin a.skip_tasks

\* execute, line 195
SkipPerUser(t, a) == t._name \in a.skip_tasks /\ t._name \notin a.force_tasks

NoArgs == [force |-> FALSE, force_tasks |-> {}, skip_tasks |-> {}]
NoCounts == [nexec |-> 0, nskip |-> 0, nfail |-> 0]
NoIO == [reads |-> {}, writes |-> {}]
NoRun == <<0>>

-----------------------------------------------------------------------------
(* History kept for the claims that compare two execute calls *)

\* hist.ret[n]      what n's run returned in this call (NoRun: it did not)
\* hist.prev_ret[n] ... and in the call before
\* hist.fs_call     the files as this call saw them
\* hist.fs_prev     ... and as the call before saw them
\* hist.pcalls      the execute calls made on this Pipeline object
\* hist.edits       the file changes so far
\* hist.exits       the processes that have exited so far

-----------------------------------------------------------------------------
(* Dates and the expiry arithmetic of expire.py.  A datetime is a record    *)
(* [year, month, day, second, micro]: second is the second of the day and   *)
(* micro tells whether the microsecond field is not zero.  A midnight is    *)
(* named by its proleptic Gregorian ordinal, as date.toordinal() gives it.  *)

\* the years the clock is drawn from, the months _add_months is asked to add,
\* the length of a days tuple
FirstYear == 2023
LastYear == 2024
MaxMonths == 13
MaxDays == 2

IsLeap(y) == y % 4 = 0 /\ (y % 100 # 0 \/ y % 400 = 0)

\* calendar.monthrange(year, month)[1]
DaysInMonth(y, m) ==
    IF m = 2 THEN (IF IsLeap(y) THEN 29 ELSE 28)
    ELSE IF m \in {4, 6, 9, 11} THEN 30 ELSE 31

RECURSIVE DaysBeforeMonth(_, _)
DaysBeforeMonth(y, m) ==
    IF m = 1 THEN 0 ELSE DaysBeforeMonth(y, m - 1) + DaysInMonth(y, m - 1)

DaysBeforeYear(y) ==
    (y - 1) * 365 + ((y - 1) \div 4) - ((y - 1) \div 100) + ((y - 1) \div 400)

\* datetime.toordinal()
ToOrdinal(y, m, d) == DaysBeforeYear(y) + DaysBeforeMonth(y, m) + d

\* datetime.weekday(): 0 is Monday, 6 is Sunday
Weekday(date) == (ToOrdinal(date.year, date.month, date.day) + 6) % 7

\* dt.datetime(year, month, day) raises ValueError unless the day exists
ValidDate(y, m, d) == m \in 1..12 /\ d \in 1..DaysInMonth(y, m)

Min(S) == CHOOSE x \in S : \A z \in S : x <= z

\* mutant: the day of the month is kept as it is
_add_months_unclamped(date, months) ==
    LET month0 == date.month - 1 + months
        year == date.year + (month0 \div 12)
        month == (month0 % 12) + 1
    IN  [date EXCEPT !.year = year, !.month = month]

\* expire._add_months; // and % of Python round toward minus infinity, as \div
\* and % do
_add_months(date, months) ==
    LET month0 == date.month - 1 + months
        year == date.year + (month0 \div 12)
        month == (month0 % 12) + 1
        last_day == DaysInMonth(year, month)
        day == IF date.day < last_day THEN date.day ELSE last_day
    IN  [date EXCEPT !.year = year, !.month = month, !.day = day]

\* expire._get_midnight, as an ordinal
_get_midnight(base) == ToOrdinal(base.year, base.month, base.day)

\* expire._get_next_weekday: the earliest of the candidates, one for each
\* requested weekday, 1 to 7 days after today's midnight
_get_next_weekday(weekdays, today) ==
    IF weekdays = <<>> THEN [err |-> "ValueError", target |-> 0]
    ELSE LET days_ahead(k) ==
                 LET a == (weekdays[k] - Weekday(today)) % 7
                 IN  IF a = 0 THEN 7 ELSE a
         IN  [err |-> "none",
              target |-> Min({_get_midnight(today) + days_ahead(k) : k \in 1..Len(weekdays)})]

\* the candidates expire._get_next_month_day collects: for every requested
\* day, the day in the current month if it exists and is after today's
\* midnight, and the day in the month of _add_months(today, 1) if it exists
MonthDayCandidates(days, today) ==
    LET next_month_date == _add_months(today, 1)
    IN  {ToOrdinal(today.year, today.month, days[k]) :
            k \in {j \in 1..Len(days) :
                      /\ ValidDate(today.year, today.month, days[j])
                      /\ ToOrdinal(today.year, today.month, days[j]) > _get_midnight(today)}}
        \cup
        {ToOrdinal(next_month_date.year, next_month_date.month, days[k]) :
            k \in {j \in 1..Len(days) :
                      ValidDate(next_month_date.year, next_month_date.month, days[j])}}

\* expire._get_next_month_day: ValueError without candidates, else the earliest
_get_next_month_day(days, today) ==
    LET c == MonthDayCandidates(days, today)
    IN  IF c = {} THEN [err |-> "ValueError", target |-> 0]
        ELSE [err |-> "none", target |-> Min(c)]

\* expire._seconds_until for a midnight target: int() of the difference in
\* seconds, which drops the fraction (toward zero)
_seconds_until(target, from_time) ==
    LET whole == (target - _get_midnight(from_time)) * 86400 - from_time.second
    IN  IF from_time.micro /\ whole >= 1 THEN whole - 1 ELSE whole

Epoch == [year |-> FirstYear, month |-> 1, day |-> 1, second |-> 0, micro |-> FALSE]
NoPolicy == [kind |-> "none", days |-> <<>>, months |-> 0, err |-> "none", target |-> 0,
             seconds |-> 0, date |-> Epoch]

-----------------------------------------------------------------------------

(* Actions *)

\* Pipeline.add(task), with the Task built just before; what an earlier read of
\* Pipeline.tasks produced no longer describes the membership ("unread")
Add(t) ==
    /\ pc = "idle"
    /\ Len(_tasks) < MaxTasks
    /\ _tasks' = Append(_tasks, t)
    /\ _on_complete_deletions' = _on_complete_deletions \cup Registered(<<t>>)
    /\ log' = Append(log, "NEW")
    /\ tasks' = <<>>
    /\ raised' = "unread"
    /\ UNCHANGED <<now, evaluation, failures, expire_results_if_none, cache, fs, pc, idx, args,
                   counts, ran, io, hist, ncalls>>

\* a caller reads the Pipeline.tasks property to its end
GetTasks ==
    /\ pc = "idle"
    /\ tasks' = TasksOf(_tasks).seq
    /\ raised' = TasksOf(_tasks).err
    /\ UNCHANGED <<now, evaluation, _tasks, failures, expire_results_if_none, cache,
                   _on_complete_deletions, fs, pc, idx, args, counts, log, ran, io,
                   hist, ncalls>>

\* Pipeline.execute up to the for loop (lines 165-188): validate_tasks, the
\* force eviction, _max_task_name_len (max() of an empty list raises
\* ValueError), list(self.tasks)
Execute(force, force_tasks, skip_tasks) ==
    /\ pc = "idle"
    /\ ncalls < MaxCalls
    /\ LET invalid == run_errors(_tasks) # <<>>
           order == TasksOf(_tasks)
           err == IF invalid THEN "AttributeError"
                  ELSE IF order.err # "none" THEN order.err
                  ELSE IF _tasks = <<>> THEN "ValueError"
                  ELSE "none"
       IN  /\ cache' = IF force /\ ~invalid THEN CacheEvict(cache, "RESULTS") ELSE cache
           /\ raised' = err
           /\ pc' = IF err = "none" THEN "loop" ELSE "idle"
           /\ tasks' = order.seq
           /\ args' = IF err = "none"
                      THEN [force |-> force, force_tasks |-> force_tasks,
                            skip_tasks |-> skip_tasks]
                      ELSE NoArgs
    /\ idx' = 1
    /\ counts' = NoCounts
    /\ log' = [i \in 1..Len(_tasks) |-> "PENDING"]
    /\ ran' = {}
    /\ io' = NoIO
    /\ hist' = [hist EXCEPT !.prev_ret = hist.ret,
                            !.ret = [n \in Names |-> NoRun],
                            !.fs_prev = hist.fs_call,
                            !.fs_call = fs,
                            !.pcalls = hist.pcalls + 1]
    /\ ncalls' = ncalls + 1
    /\ UNCHANGED <<now, evaluation, _tasks, failures, expire_results_if_none, _on_complete_deletions, fs>>

\* mutant: a failed dependency makes the task skipped whatever its policy
BranchSkipsBlocked(t, outcome) ==
    IF SkipPerUser(t, args) THEN "SKIP_USER"
    ELSE IF UseCached(cache, fs, t) THEN "SKIP_CACHED"
    ELSE IF failed_deps(t, failures) # {} THEN "SKIP_DEPENDENCY"
    ELSE IF outcome = "raise" THEN "FAIL"
    ELSE "EXEC"

\* mutant: under the SKIP policy a failed dependency is logged and the task's
\* run is invoked all the same
BranchRunsSkipPolicy(t, outcome) ==
    IF SkipPerUser(t, args) THEN "SKIP_USER"
    ELSE IF UseCached(cache, fs, t) THEN "SKIP_CACHED"
    ELSE IF failed_deps(t, failures) # {} /\ t.if_upstream_errors = "FAIL"
         THEN "FAIL_DEPENDENCY"
    ELSE IF outcome = "raise" THEN "FAIL"
    ELSE "EXEC"

\* which branch of the loop body (lines 194-242) the task takes; "FAIL_STORE"
\* is the run that returned followed by a _cache_result that raised before
\* anything was written: the task's policy raised when evaluated for the TTL
\* (expire.monthly), or the value could not be serialised by the cache
Branch(t, outcome) ==
    IF SkipPerUser(t, args) THEN "SKIP_USER"
    ELSE IF UseCached(cache, fs, t) THEN "SKIP_CACHED"
    ELSE IF failed_deps(t, failures) # {}
         THEN (IF t.if_upstream_errors = "FAIL" THEN "FAIL_DEPENDENCY" ELSE "SKIP_DEPENDENCY")
    ELSE IF outcome = "raise" THEN "FAIL"
    ELSE IF outcome = "unstorable" THEN "FAIL_STORE"
    ELSE "EXEC"

\* the value a run returns: None, a value that names the call that made it,
\* or one that _cache_result fails to store
Unstorable == <<0, 0>>

Returned(outcome) ==
    IF outcome = "none" THEN None
    ELSE IF outcome = "unstorable" THEN Unstorable
    ELSE <<ncalls>>

\* the operations a task registers with @task.process: its run and an
\* auxiliary one
FuncNames == {"run", "extract"}

\* mutant: every instrumented operation that returns marks the task executed
_process_wrapper_any(t, func_name, outcome) ==
    [t EXCEPT !._executed = IF outcome # "raise" THEN TRUE ELSE @]

\* Task.process, _process_wrapper: func is called; when it raises nothing
\* after it happens; when it returns, _executed is set if func is named run
_process_wrapper(t, func_name, outcome) ==
    [t EXCEPT !._executed = IF outcome # "raise" /\ func_name = "run" THEN TRUE ELSE @]

\* the last line the wrapper logs for the call
WrapperLine(func_name, outcome) ==
    IF outcome = "raise" THEN (IF func_name = "run" THEN "RUNNING" ELSE "RUNNING_AUX")
    ELSE IF func_name = "run" THEN "DONE" ELSE "DONE_AUX"

\* mutant: a task whose own run raised is not recorded in failures
HandleTaskForgetsFailure(outcome) ==
    /\ pc = "loop"
    /\ idx <= Len(tasks)
    /\ LET i == tasks[idx]
           t == _tasks[i]
           b == Branch(t, outcome)
           touched == {t._name, HashKey(t._name)}
       IN  /\ _tasks' = [_tasks EXCEPT
                  ![i]._skipped = IF b \in {"SKIP_USER", "SKIP_CACHED", "SKIP_DEPENDENCY"}
                                  THEN TRUE ELSE @,
                  ![i]._executed = IF b \in {"FAIL", "EXEC"}
                                   THEN _process_wrapper(t, "run", outcome)._executed
                                   ELSE @]
           /\ failures' = IF b = "FAIL_DEPENDENCY"
                          THEN failures \cup {t._name} ELSE failures
           /\ cache' = IF b = "EXEC" THEN _cache_result(cache, fs, t, Returned(outcome))
                       ELSE cache
           /\ counts' = [nexec |-> counts.nexec + (IF b = "EXEC" THEN 1 ELSE 0),
                         nskip |-> counts.nskip
                                   + (IF b \in {"SKIP_USER", "SKIP_CACHED", "SKIP_DEPENDENCY"}
                                      THEN 1 ELSE 0),
                         nfail |-> counts.nfail
                                   + (IF b \in {"FAIL", "FAIL_DEPENDENCY"} THEN 1 ELSE 0)]
           /\ log' = [log EXCEPT ![i] = b]
           /\ ran' = IF b \in {"FAIL", "EXEC"} THEN ran \cup {i} ELSE ran
           /\ io' = [reads |-> IF b = "SKIP_USER" THEN {} ELSE touched,
                     writes |-> IF b = "EXEC" THEN touched ELSE {}]
           /\ hist' = IF b = "EXEC"
                      THEN [hist EXCEPT !.ret[t._name] = Returned(outcome)]
                      ELSE hist
    /\ idx' = idx + 1
    /\ UNCHANGED <<now, evaluation, expire_results_if_none, _on_complete_deletions, fs, pc, tasks, args,
                   raised, ncalls>>

\* mutant: the handling of a task that failed or was blocked drops the result
\* entry an earlier run left under its name
CacheAfterDropsFailed(c, f, t, b, result) ==
    IF b = "EXEC" THEN _cache_result(c, f, t, result)
    ELSE IF b \in {"FAIL", "FAIL_DEPENDENCY", "SKIP_DEPENDENCY"}
         THEN CacheDelete(c, t._name)
    ELSE c

\* the cache after the loop body handled task t on branch b: _cache_result is
\* reached only when run returned (line 234); the skip branches, the blocked
\* branch and the except clause (lines 237-242) make no cache call that writes
CacheAfter(c, f, t, b, result) ==
    IF b = "EXEC" THEN _cache_result(c, f, t, result) ELSE c

\* one iteration of execute's for loop; outcome is what task.run() does when
\* it is invoked: "raise", "none" (returns None) or "value"
HandleTask(outcome) ==
    /\ pc = "loop"
    /\ idx <= Len(tasks)
    /\ LET i == tasks[idx]
           t == _tasks[i]
           b == Branch(t, outcome)
           touched == {t._name, HashKey(t._name)}
       IN  /\ _tasks' = [_tasks EXCEPT
                  ![i]._skipped = IF b \in {"SKIP_USER", "SKIP_CACHED", "SKIP_DEPENDENCY"}
                                  THEN TRUE ELSE @,
                  ![i]._executed = IF b \in {"FAIL", "EXEC", "FAIL_STORE"}
                                   THEN _process_wrapper(t, "run", outcome)._executed
                                   ELSE @]
           /\ failures' = IF b \in {"FAIL", "FAIL_DEPENDENCY", "FAIL_STORE"}
                          THEN failures \cup {t._name} ELSE failures
           /\ cache' = CacheAfter(cache, fs, t, b, Returned(outcome))
           /\ counts' = [nexec |-> counts.nexec + (IF b = "EXEC" THEN 1 ELSE 0),
                         nskip |-> counts.nskip
                                   + (IF b \in {"SKIP_USER", "SKIP_CACHED", "SKIP_DEPENDENCY"}
                                      THEN 1 ELSE 0),
                         nfail |-> counts.nfail
                                   + (IF b \in {"FAIL", "FAIL_DEPENDENCY", "FAIL_STORE"}
                                      THEN 1 ELSE 0)]
           /\ log' = [log EXCEPT ![i] = b]
           /\ ran' = IF b \in {"FAIL", "EXEC", "FAIL_STORE"} THEN ran \cup {i} ELSE ran
           /\ io' = [reads |-> IF b = "SKIP_USER" THEN {} ELSE touched,
                     writes |-> IF b = "EXEC" THEN touched ELSE {}]
           /\ hist' = IF b \in {"EXEC", "FAIL_STORE"}
                      THEN [hist EXCEPT !.ret[t._name] = Returned(outcome)]
                      ELSE hist
    /\ idx' = idx + 1
    /\ UNCHANGED <<now, evaluation, expire_results_if_none, _on_complete_deletions, fs, pc, tasks, args,
                   raised, ncalls>>

\* a caller invokes an instrumented operation of a task directly, outside
\* execute: task.run() or task.extract()
CallProcess(i, func_name, outcome) ==
    /\ pc = "idle"
    /\ i \in 1..Len(_tasks)
    /\ _tasks[i].has_run
    /\ _tasks' = [_tasks EXCEPT ![i] = _process_wrapper(@, func_name, outcome)]
    /\ log' = [log EXCEPT ![i] = WrapperLine(func_name, outcome)]
    /\ UNCHANGED <<now, evaluation, failures, expire_results_if_none, cache, _on_complete_deletions, fs,
                   pc, tasks, idx, args, counts, raised, ran, io, hist, ncalls>>

\* mutant: no key is found to hold None
NoneKeysNever(c) == {}

\* the keys whose stored value is None (lines 264-266)
NoneKeys(c) == {k \in Keys : c[k].tag # "ABSENT" /\ c[k].value = None}

\* execute after the loop (lines 244-268): the on_complete deletions, then the
\* None results when expire_results_if_none; execute returns
Finish ==
    /\ pc = "loop"
    /\ idx > Len(tasks)
    /\ LET c1 == CacheDeleteAll(cache, _on_complete_deletions)
       IN  cache' = IF expire_results_if_none
                    THEN CacheDeleteAll(c1, NoneKeys(c1))
                    ELSE c1
    /\ pc' = "idle"
    /\ tasks' = <<>>
    /\ idx' = 1
    /\ args' = NoArgs
    /\ io' = NoIO
    /\ UNCHANGED <<now, evaluation, _tasks, failures, expire_results_if_none, _on_complete_deletions, fs,
                   counts, raised, log, ran, hist, ncalls>>

\* the exception a cache delete raises when the store cannot be written
\* (diskcache.Timeout, sqlite3.OperationalError, OSError)
DeleteError == "Timeout"

\* execute after the loop when the delete of `key` raises: the deletions are
\* not guarded, so the exception leaves execute with the clean-up cut short.
\* The delete is one of the on_complete deletions (some of the others were
\* done before it), or one of the None deletions (all on_complete deletions
\* and some of the other None deletions were done before it)
FinishDeleteFails(key) ==
    /\ pc = "loop"
    /\ idx > Len(tasks)
    /\ LET c1 == CacheDeleteAll(cache, _on_complete_deletions)
       IN  \/ /\ key \in _on_complete_deletions
              /\ \E done \in SUBSET (_on_complete_deletions \ {key}) :
                    cache' = CacheDeleteAll(cache, done)
           \/ /\ expire_results_if_none
              /\ key \in NoneKeys(c1)
              /\ \E done \in SUBSET (NoneKeys(c1) \ {key}) :
                    cache' = CacheDeleteAll(c1, done)
    /\ raised' = DeleteError
    /\ pc' = "idle"
    /\ tasks' = <<>>
    /\ idx' = 1
    /\ args' = NoArgs
    /\ io' = NoIO
    /\ UNCHANGED <<now, evaluation, _tasks, failures, expire_results_if_none, _on_complete_deletions, fs,
                   counts, log, ran, hist, ncalls>>

\* expire.after_session(task_name) registers the deletion of the task's key
\* with atexit when the policy is built
AtExitKeys(ts) == {ts[i]._name : i \in {j \in 1..Len(ts) : ts[j].expire_results = "after_session"}}

\* expire._del_cache_key: the delete, any Exception of which is dropped
_del_cache_key(c, key, fails) ==
    [cache |-> IF fails THEN c ELSE CacheDelete(c, key), err |-> "none"]

RECURSIVE ExitHooks(_, _, _)
ExitHooks(c, keys, failing) ==
    IF keys = {} THEN [cache |-> c, err |-> "none"]
    ELSE LET k == CHOOSE x \in keys : TRUE
             r == _del_cache_key(c, k, k \in failing)
             rest == ExitHooks(r.cache, keys \ {k}, failing)
         IN  [cache |-> rest.cache,
              err |-> IF r.err # "none" THEN r.err ELSE rest.err]

\* the interpreter exits: every registered hook runs; the deletes of the keys
\* in `failing` raise
AtExit(failing) ==
    /\ pc = "idle"
    /\ hist.exits < MaxExits
    /\ LET r == ExitHooks(cache, AtExitKeys(_tasks), failing)
       IN  /\ cache' = r.cache
           /\ raised' = IF r.err # "none" THEN r.err ELSE raised
    /\ pc' = "exit"
    /\ hist' = [hist EXCEPT !.exits = hist.exits + 1]
    /\ UNCHANGED <<now, evaluation, _tasks, failures, expire_results_if_none,
                   _on_complete_deletions, fs, tasks, idx, args, counts, log, ran, io,
                   ncalls>>

\* the script is started again in a new process: the modules are imported
\* afresh (an empty deferred-deletion list), the same Tasks and Pipeline are
\* built again, over the cache directory the last process left
NewProcess ==
    /\ pc = "exit"
    /\ pc' = "idle"
    /\ _tasks' = [i \in 1..Len(_tasks) |->
                     Task(_tasks[i]._name, _tasks[i]._dependency_names,
                          _tasks[i].if_upstream_errors, _tasks[i].expire_results,
                          _tasks[i]._script_path, _tasks[i].input_files,
                          _tasks[i].hash_inputs, _tasks[i].has_run)]
    /\ _on_complete_deletions' = Registered(_tasks)
    /\ failures' = {}
    /\ log' = [i \in 1..Len(_tasks) |-> "NEW"]
    /\ ran' = {}
    /\ counts' = NoCounts
    /\ raised' = "none"
    /\ hist' = [hist EXCEPT !.pcalls = 0]
    /\ UNCHANGED <<now, evaluation, expire_results_if_none, cache, fs, tasks, idx, args,
                   io, ncalls>>

\* mutant: the new Task objects take over the run-state of the old ones
FreshTaskKeeps(t) == t

\* Task.__init__ again for every task and a new Pipeline of the same name:
\* fresh run-state and failures, the same cache directory
FreshTask(t) == [t EXCEPT !._executed = FALSE, !._skipped = FALSE]

NewPipeline ==
    /\ pc = "idle"
    /\ hist.pcalls > 0
    /\ ncalls < MaxCalls
    /\ _tasks' = [i \in 1..Len(_tasks) |-> FreshTask(_tasks[i])]
    /\ failures' = {}
    /\ log' = [i \in 1..Len(_tasks) |-> "NEW"]
    /\ ran' = {}
    /\ counts' = NoCounts
    /\ raised' = "none"
    /\ hist' = [hist EXCEPT !.pcalls = 0]
    /\ UNCHANGED <<now, evaluation, expire_results_if_none, cache, _on_complete_deletions, fs, pc, tasks,
                   idx, args, io, ncalls>>

\* the user edits a file (or removes it) between two execute calls
Contents == {NoFile, 1, 2}

ChangeFile(path, content) ==
    /\ pc = "idle"
    /\ ncalls < MaxCalls
    /\ hist.edits < MaxEdits
    /\ path \in DOMAIN fs
    /\ content # fs[path]
    /\ fs' = [fs EXCEPT ![path] = content]
    /\ hist' = [hist EXCEPT !.edits = hist.edits + 1]
    /\ UNCHANGED <<now, evaluation, _tasks, failures, expire_results_if_none, cache,
                   _on_complete_deletions, pc, tasks, idx, args, counts, raised, log,
                   ran, io, ncalls>>

-----------------------------------------------------------------------------
(* Specifications *)

\* the state once the Pipeline is built and the tasks ts are added
InitWith(ts, ifnone, stale, files) ==
    /\ now = Epoch
    /\ evaluation = NoPolicy
    /\ _tasks = ts
    /\ failures = {}
    /\ expire_results_if_none = ifnone
    /\ cache = EmptyCache
    /\ _on_complete_deletions = Registered(ts) \cup stale
    /\ fs = files
    /\ pc = "idle"
    /\ tasks = <<>>
    /\ idx = 1
    /\ args = NoArgs
    /\ counts = NoCounts
    /\ raised = "none"
    /\ log = [i \in 1..Len(ts) |-> "NEW"]
    /\ ran = {}
    /\ io = NoIO
    /\ hist = [ret |-> [n \in Names |-> NoRun], prev_ret |-> [n \in Names |-> NoRun],
               fs_call |-> files, fs_prev |-> files, pcalls |-> 0, edits |-> 0, exits |-> 0]
    /\ ncalls = 0

Outcomes == {"raise", "none", "value"}
Policies == {"FAIL", "SKIP"}
Expiries == {"never", "on_complete"}

\* the force_tasks / skip_tasks arguments: at most MaxArgs names of added tasks
MaxArgs == 1
ArgSets == {S \in SUBSET {_tasks[i]._name : i \in 1..Len(_tasks)} : Cardinality(S) <= MaxArgs}

\* two tasks of one script, added dependent first: A, which may expire
\* on_complete, and B, which may depend on A
TwoTasks ==
    {<<Task("B", c[1], c[2], "never", "script", <<>>, TRUE, TRUE),
       Task("A", <<>>, "FAIL", e, "script", <<>>, TRUE, TRUE)>> :
         c \in {<<<<>>, "FAIL">>, <<<<"A">>, "FAIL">>, <<<<"A">>, "SKIP">>},
         e \in Expiries}

InitTwo ==
    \E ts \in TwoTasks :
        InitWith(ts, TRUE, {}, [p \in {"script"} |-> 1])

\* one task with two input files; its name may still be registered for
\* on_complete deletion by a Task built earlier in the process
OneTask ==
    {<<Task("A", <<>>, "FAIL", e, "script", <<"in1", "in2">>, h, TRUE)>> :
         e \in Expiries, h \in BOOLEAN}

InitOne ==
    \E ts \in OneTask, ifnone \in BOOLEAN, stale \in {{}, {"A"}} :
        InitWith(ts, ifnone, stale, [p \in Paths |-> 1])

Init == InitTwo \/ InitOne

Next ==
    \/ \E f \in BOOLEAN, ft \in ArgSets, st \in ArgSets : Execute(f, ft, st)
    \/ \E o \in Outcomes : HandleTask(o)
    \/ Finish
    \/ NewPipeline
    \/ \E p \in Paths, c \in Contents : ChangeFile(p, c)

Spec == Init /\ [][Next]_vars

\* the scheduler alone: tasks of any names and dependencies, added in any order
DepLists == DistinctSeqs(Names, 2)

InitOrder == InitWith(<<>>, TRUE, {}, [p \in {"script"} |-> 1])

NextOrder ==
    \/ \E n \in Names, d \in DepLists :
          Add(Task(n, d, "FAIL", "never", "script", <<>>, TRUE, TRUE))
    \/ GetTasks

SpecOrder == InitOrder /\ [][NextOrder]_vars

\* a chain of three tasks of one script, added dependents first: C on B (FAIL
\* policy), B on A (either policy), A
ThreeTasks ==
    {<<Task("C", <<"B">>, "FAIL", "never", "script", <<>>, TRUE, TRUE),
       Task("B", <<"A">>, p, "never", "script", <<>>, TRUE, TRUE),
       Task("A", <<>>, "FAIL", "never", "script", <<>>, TRUE, TRUE)>> : p \in Policies}

InitChain ==
    \E ts \in ThreeTasks :
        InitWith(ts, TRUE, {}, [p \in {"script"} |-> 1])

SpecChain == InitChain /\ [][Next]_vars

\* the pre-flight of execute: tasks of any names, with or without a run
\* process, depending on nothing or on one name, are added before and between
\* execute calls
FatalDeps == {<<>>, <<"A">>, <<"B">>}

NextFatal ==
    \/ \E n \in Names, d \in FatalDeps, r \in BOOLEAN :
          Add(Task(n, d, "FAIL", "never", "script", <<>>, TRUE, r))
    \/ \E f \in BOOLEAN : Execute(f, {}, {})
    \/ \E o \in Outcomes : HandleTask(o)
    \/ Finish

SpecFatal == InitOrder /\ [][NextFatal]_vars

\* the clean-up with deletes that may fail, the exit of the process and the
\* start of the next one: two independent tasks of any expiry policy or none,
\* either configuration of the Pipeline
CleanupTasks ==
    {<<Task("B", <<>>, "FAIL", e2, "script", <<>>, TRUE, TRUE),
       Task("A", <<>>, "FAIL", e1, "script", <<>>, TRUE, TRUE)>> :
         e1 \in Expiries \cup {NoExpiry}, e2 \in Expiries \cup {NoExpiry}}

InitCleanup ==
    \E ts \in CleanupTasks, ifnone \in BOOLEAN :
        InitWith(ts, ifnone, {}, [p \in {"script"} |-> 1])

NextCleanup ==
    \/ \E f \in BOOLEAN : Execute(f, {}, {})
    \/ \E o \in Outcomes : HandleTask(o)
    \/ Finish
    \/ \E k \in Keys : FinishDeleteFails(k)
    \/ \E failing \in SUBSET Names : AtExit(failing)
    \/ NewProcess

SpecCleanup == InitCleanup /\ [][NextCleanup]_vars

\* the policy expire.weekly(days) built is called: weekday_ints are the
\* parsed weekdays
expire_weekly(weekday_ints) ==
    /\ pc = "idle"
    /\ evaluation = NoPolicy
    /\ LET today == now
           future_date == _get_next_weekday(weekday_ints, today)
       IN  evaluation' = [kind |-> "weekly", days |-> weekday_ints, months |-> 0,
                          err |-> future_date.err, target |-> future_date.target,
                          seconds |-> IF future_date.err = "none"
                                      THEN _seconds_until(future_date.target, today)
                                      ELSE 0,
                          date |-> today]
    /\ UNCHANGED <<now, _tasks, failures, expire_results_if_none, cache,
                   _on_complete_deletions, fs, pc, tasks, idx, args, counts, raised, log,
                   ran, io, hist, ncalls>>

\* the policy expire.monthly(days) built is called
expire_monthly(days) ==
    /\ pc = "idle"
    /\ evaluation = NoPolicy
    /\ LET today == now
           future_date == _get_next_month_day(days, today)
       IN  evaluation' = [kind |-> "monthly", days |-> days, months |-> 0,
                          err |-> future_date.err, target |-> future_date.target,
                          seconds |-> IF future_date.err = "none"
                                      THEN _seconds_until(future_date.target, today)
                                      ELSE 0,
                          date |-> today]
    /\ UNCHANGED <<now, _tasks, failures, expire_results_if_none, cache,
                   _on_complete_deletions, fs, pc, tasks, idx, args, counts, raised, log,
                   ran, io, hist, ncalls>>

\* expire._add_months(now, months) is computed
AddMonths(months) ==
    /\ pc = "idle"
    /\ evaluation = NoPolicy
    /\ evaluation' = [kind |-> "add_months", days |-> <<>>, months |-> months,
                      err |-> "none", target |-> 0, seconds |-> 0,
                      date |-> _add_months(now, months)]
    /\ UNCHANGED <<now, _tasks, failures, expire_results_if_none, cache,
                   _on_complete_deletions, fs, pc, tasks, idx, args, counts, raised, log,
                   ran, io, hist, ncalls>>

\* the expiry arithmetic alone, one computation in each behaviour: the clock
\* shows any instant of the years FirstYear..LastYear at the start or in the
\* last second of a day, with or without a fraction of a second; the policies
\* are given up to MaxDays days
DaySeconds == {0, 86399}
Instants ==
    {[year |-> y, month |-> m, day |-> d, second |-> s, micro |-> u] :
        y \in FirstYear..LastYear, m \in 1..12, d \in 1..31, s \in DaySeconds, u \in BOOLEAN}
MonthDays == {1, 29, 30, 31, 32}

InitExpire ==
    /\ now \in {i \in Instants : ValidDate(i.year, i.month, i.day)}
    /\ evaluation = NoPolicy
    /\ _tasks = <<>>
    /\ failures = {}
    /\ expire_results_if_none = TRUE
    /\ cache = EmptyCache
    /\ _on_complete_deletions = {}
    /\ fs = [p \in {"script"} |-> 1]
    /\ pc = "idle"
    /\ tasks = <<>>
    /\ idx = 1
    /\ args = NoArgs
    /\ counts = NoCounts
    /\ raised = "none"
    /\ log = <<>>
    /\ ran = {}
    /\ io = NoIO
    /\ hist = [ret |-> [n \in Names |-> NoRun], prev_ret |-> [n \in Names |-> NoRun],
               fs_call |-> [p \in {"script"} |-> 1], fs_prev |-> [p \in {"script"} |-> 1],
               pcalls |-> 0, edits |-> 0, exits |-> 0]
    /\ ncalls = 0

NextExpire ==
    \/ \E w \in DistinctSeqs(0..6, MaxDays) : expire_weekly(w)
    \/ \E d \in DistinctSeqs(MonthDays, MaxDays) : expire_monthly(d)
    \/ \E n \in (0 - MaxMonths)..MaxMonths : AddMonths(n)

SpecExpire == InitExpire /\ [][NextExpire]_vars

\* the two tasks of TwoTasks in a Pipeline built with
\* expire_results_if_none=False, so that None results stay in the cache
InitKeepNone ==
    \E ts \in TwoTasks :
        InitWith(ts, FALSE, {}, [p \in {"script"} |-> 1])

SpecKeepNone == InitKeepNone /\ [][Next]_vars

\* the pipelines of Spec with runs whose result _cache_result fails to store
NextStore ==
    \/ \E f \in BOOLEAN, ft \in ArgSets, st \in ArgSets : Execute(f, ft, st)
    \/ \E o \in Outcomes \cup {"unstorable"} : HandleTask(o)
    \/ Finish
    \/ NewPipeline
    \/ \E p \in Paths, c \in Contents : ChangeFile(p, c)

SpecStore == Init /\ [][NextStore]_vars

\* the instrumented operations are also called directly, between execute calls
NextProcess ==
    \/ \E f \in BOOLEAN, st \in ArgSets : Execute(f, {}, st)
    \/ \E o \in Outcomes : HandleTask(o)
    \/ Finish
    \/ \E i \in 1..MaxTasks, fn \in FuncNames, o \in Outcomes : CallProcess(i, fn, o)

SpecProcess == InitTwo /\ [][NextProcess]_vars

-----------------------------------------------------------------------------
(* Claims *)

UniqueNames(ts) == \A i, j \in 1..Len(ts) : ts[i]._name = ts[j]._name => i = j

Resolved(ts) == \A i \in 1..Len(ts) : \A d \in Range(ts[i]._dependency_names) :
                    \E j \in 1..Len(ts) : ts[j]._name = d

Acyclic(ts) == \A i \in 1..Len(ts) : ts[i]._name \notin Upstream(ts, ts[i]._name)

\* the Pipeline.tasks property was read to its end for the present membership
TasksRead == pc = "idle" /\ ncalls = 0 /\ raised # "unread" /\ _tasks # <<>>

PositionIn(seq, i) == CHOOSE k \in 1..Len(seq) : seq[k] = i

\* C1: for an acyclic set of tasks (of distinct names) whose dependency names
\* all resolve, added in any order, Pipeline.tasks yields every task exactly
\* once and every task after all the tasks it depends on, directly or
\* transitively.
C1_TopologicalOrder ==
    (TasksRead /\ UniqueNames(_tasks) /\ Resolved(_tasks) /\ Acyclic(_tasks)) =>
        /\ raised = "none"
        /\ Len(tasks) = Len(_tasks)
        /\ Range(tasks) = 1..Len(_tasks)
        /\ \A i, j \in 1..Len(_tasks) :
              _tasks[j]._name \in Upstream(_tasks, _tasks[i]._name)
                  => PositionIn(tasks, j) < PositionIn(tasks, i)

\* three tasks added dependents first, C on B and A, B on A: the order is
\* the reverse of the add order
C1_Witness ==
    /\ TasksRead
    /\ Len(_tasks) = 3
    /\ _tasks[1]._name = "C" /\ _tasks[1]._dependency_names = <<"B", "A">>
    /\ _tasks[2]._name = "B" /\ _tasks[2]._dependency_names = <<"A">>
    /\ _tasks[3]._name = "A" /\ _tasks[3]._dependency_names = <<>>
    /\ tasks = <<3, 2, 1>>

-----------------------------------------------------------------------------
(* Steps and states of execute that the claims below speak about *)

\* one iteration of the for loop is taken
HandleStep == pc = "loop" /\ idx <= Len(tasks) /\ idx' = idx + 1

\* execute returns
ReturnStep == pc = "loop" /\ pc' = "idle"

\* the loop is over, the cleanup is still to come
LoopDone == pc = "loop" /\ idx > Len(tasks)

\* the tasks the loop of this call has handled so far
HandledSoFar == IF pc = "loop" THEN {tasks[k] : k \in 1..(idx - 1)} ELSE {}

InBoth(t, a) == t._name \in a.skip_tasks /\ t._name \in a.force_tasks
SkipOnly(t, a) == t._name \in a.skip_tasks /\ t._name \notin a.force_tasks

\* this call is the first on a Pipeline object built after an earlier call, in
\* which the task's run returned, and the task's hashes are what they were then
FreshAfterRun(t) ==
    /\ hist.pcalls = 1
    /\ ncalls > 1
    /\ hist.prev_ret[t._name] # NoRun
    /\ _script_hash(fs, t) = _script_hash(hist.fs_prev, t)
    /\ _inputs_hash(fs, t) = _inputs_hash(hist.fs_prev, t)

\* the task was skipped from its checkpoint and exposes the first run's result
Reused(ts, c, r, i) ==
    /\ ts[i]._skipped
    /\ ~ts[i]._executed
    /\ i \notin r
    /\ CacheGet(c, ts[i]._name) = hist.prev_ret[ts[i]._name]

\* C2 as claimed: after a successful run under the never policy, a fresh
\* Pipeline with a fresh task of equal hashes, executed without force, skips
\* the task, does not run it and exposes the first run's result.
C2_RoundTrip_AsClaimed ==
    [][ReturnStep =>
          \A i \in 1..Len(_tasks) :
              (FreshAfterRun(_tasks[i]) /\ _tasks[i].expire_results = "never"
                                        /\ ~args.force)
                  => Reused(_tasks', cache', ran', i)]_vars

\* C2 as amended: the same when the first run returned a value other than None
\* and the task's name is not registered for on_complete deletion.
C2_RoundTrip ==
    [][ReturnStep =>
          \A i \in 1..Len(_tasks) :
              (/\ FreshAfterRun(_tasks[i])
               /\ _tasks[i].expire_results = "never"
               /\ ~args.force
               /\ hist.prev_ret[_tasks[i]._name] # None
               /\ _tasks[i]._name \notin _on_complete_deletions)
                  => Reused(_tasks', cache', ran', i)]_vars

\* the second call is about to return, having skipped the task from the
\* checkpoint of the first
C2_Witness ==
    /\ LoopDone
    /\ \E i \in 1..Len(_tasks) :
          /\ FreshAfterRun(_tasks[i])
          /\ _tasks[i].expire_results = "never"
          /\ ~args.force
          /\ hist.prev_ret[_tasks[i]._name] = <<1>>
          /\ _tasks[i]._name \notin _on_complete_deletions
          /\ log[i] = "SKIP_CACHED"
          /\ CacheGet(cache, _tasks[i]._name) = <<1>>

\* a result entry exists, and a hashes entry whose two hashes are the task's
CheckpointValid(c, f, t) ==
    /\ c[t._name].tag = "RESULTS"
    /\ c[HashKey(t._name)].tag = "HASHES"
    /\ c[HashKey(t._name)].script = _script_hash(f, t)
    /\ c[HashKey(t._name)].inputs = _inputs_hash(f, t)

\* C3: a task that is neither skipped by the caller nor forced is skipped as
\* cached exactly when its result entry exists and its hashes entry exists
\* with both hashes equal to the task's present hashes, whatever the value
\* stored as its result.
C3_ReuseIffValid ==
    [][HandleStep =>
          LET i == tasks[idx]
              t == _tasks[i]
          IN  (/\ t._name \notin args.skip_tasks
               /\ t._name \notin args.force_tasks
               /\ ~args.force)
                  => ((log'[i] = "SKIP_CACHED") <=> CheckpointValid(cache, fs, t))]_vars

\* C4: with hash_inputs and declared input files, a change of the content of
\* any one input file since the run that wrote the checkpoint makes the task
\* run again.
C4_InputChangeReruns ==
    [][HandleStep =>
          LET i == tasks[idx]
              t == _tasks[i]
          IN  (/\ t.hash_inputs
               /\ t.input_files # <<>>
               /\ hist.prev_ret[t._name] \notin {NoRun, None}
               /\ cache[t._name].tag = "RESULTS"
               /\ cache[HashKey(t._name)].tag = "HASHES"
               /\ ~SkipOnly(t, args)
               /\ \E k \in 1..Len(t.input_files) :
                     /\ fs[t.input_files[k]] # NoFile
                     /\ hist.fs_prev[t.input_files[k]] # NoFile
                     /\ hash_file(fs, t.input_files[k])
                            # hash_file(hist.fs_prev, t.input_files[k]))
                  => i \in ran']_vars

\* C5: execute(force=true) evicts every RESULTS entry before the first task
\* is considered, no task of that call is skipped as cached, and every task
\* that is neither skipped by the caller nor blocked by a failed dependency (a
\* dependency's name in the failures set) has its run invoked.
C5_ForceRunsAll ==
    (pc = "loop" /\ args.force) =>
        /\ idx = 1 => \A k \in Keys : cache[k].tag # "RESULTS"
        /\ \A i \in HandledSoFar :
              /\ log[i] # "SKIP_CACHED"
              /\ (~SkipOnly(_tasks[i], args) /\ failed_deps(_tasks[i], failures) = {})
                     => i \in ran

\* a forced second call, no file changed, has run again a task whose result of
\* the first call was kept
C5_Witness ==
    /\ LoopDone
    /\ args.force
    /\ hist.edits = 0
    /\ \E i \in HandledSoFar :
          /\ hist.prev_ret[_tasks[i]._name] = <<1>>
          /\ _tasks[i].expire_results = "never"
          /\ _tasks[i]._name \notin _on_complete_deletions
          /\ log[i] = "EXEC"
          /\ CacheGet(cache, _tasks[i]._name) = <<2>>

\* the task's run was invoked in this call and raised
RunRaised(i) == i \in ran /\ log[i] = "FAIL"

\* C6: a task named in both skip_tasks and force_tasks executes, whatever the
\* cache holds: once handled by the first call on freshly built tasks (its run
\* not raising, no dependency failed) it has is_executed=true and
\* is_skipped=false.
C6_ForceBeatsSkip ==
    \A i \in HandledSoFar :
        (/\ InBoth(_tasks[i], args)
         /\ ~RunRaised(i)
         /\ failed_deps(_tasks[i], failures) = {}
         /\ hist.pcalls = 1)
            => (_tasks[i]._executed /\ ~_tasks[i]._skipped)

\* C7: a task named in force_tasks is never skipped as cached; with a valid
\* checkpoint too its run is invoked.
C7_ForcedNeverCached ==
    \A i \in HandledSoFar :
        _tasks[i]._name \in args.force_tasks =>
            /\ log[i] # "SKIP_CACHED"
            /\ (~SkipOnly(_tasks[i], args) /\ failed_deps(_tasks[i], failures) = {})
                   => i \in ran

\* C8 as claimed: handling a task in skip_tasks and not in force_tasks leaves it
\* with is_skipped=true and is_executed=false, does not invoke its run and
\* neither reads nor writes a cache entry.
C8_UserSkip_AsClaimed ==
    [][HandleStep =>
          LET i == tasks[idx]
          IN  SkipOnly(_tasks[i], args) =>
                  /\ _tasks'[i]._skipped
                  /\ ~_tasks'[i]._executed
                  /\ ran' = ran
                  /\ io' = NoIO
                  /\ cache' = cache]_vars

\* C8 as amended: is_executed=false is stated only of the first call on freshly
\* built tasks; an earlier call's is_executed=true is kept.
C8_UserSkip ==
    [][HandleStep =>
          LET i == tasks[idx]
          IN  SkipOnly(_tasks[i], args) =>
                  /\ _tasks'[i]._skipped
                  /\ _tasks'[i]._executed = _tasks[i]._executed
                  /\ (hist.pcalls = 1 => ~_tasks'[i]._executed)
                  /\ ran' = ran
                  /\ io' = NoIO
                  /\ cache' = cache]_vars

\* a first call skipped, at the caller's word, a task that has no checkpoint
C8_Witness ==
    /\ pc = "loop"
    /\ hist.pcalls = 1
    /\ \E i \in HandledSoFar :
          /\ SkipOnly(_tasks[i], args)
          /\ log[i] = "SKIP_USER"
          /\ _tasks[i]._skipped
          /\ ~_tasks[i]._executed
          /\ cache[_tasks[i]._name].tag = "ABSENT"

\* b has the FAIL policy and depends directly on a task whose run raised in
\* this call
FailedUpstream(b) ==
    /\ _tasks[b].if_upstream_errors = "FAIL"
    /\ \E a \in HandledSoFar :
          /\ _tasks[a]._name \in Range(_tasks[b]._dependency_names)
          /\ RunRaised(a)

\* C9: if A's run raised and B depends directly on A with the FAIL policy and
\* has no valid checkpoint, handling B does not invoke B's run and writes
\* nothing to the cache.
C9_BlockedNotRun ==
    [][HandleStep =>
          LET b == tasks[idx]
          IN  (FailedUpstream(b) /\ ~CheckpointValid(cache, fs, _tasks[b])) =>
                  /\ ran' = ran
                  /\ hist'.ret[_tasks[b]._name] = NoRun
                  /\ io'.writes = {}
                  /\ cache' = cache]_vars

\* A's run raised and B, which depends on A with the FAIL policy, was handled
\* without its run being invoked
C9_Witness ==
    /\ LoopDone
    /\ \E b \in HandledSoFar :
          /\ FailedUpstream(b)
          /\ b \notin ran
          /\ \A k \in {_tasks[b]._name, HashKey(_tasks[b]._name)} : cache[k].tag = "ABSENT"

\* the task reaches check_failed_dependencies with the FAIL policy and a
\* dependency in the failures set
Blocked(t) ==
    /\ t.if_upstream_errors = "FAIL"
    /\ Range(t._dependency_names) \cap failures # {}
    /\ ~SkipOnly(t, args)
    /\ ~UseCached(cache, fs, t)

WarnedOnly(t) ==
    /\ t.if_upstream_errors = "SKIP"
    /\ Range(t._dependency_names) \cap failures # {}
    /\ ~SkipOnly(t, args)
    /\ ~UseCached(cache, fs, t)

RaisedAbove(t) ==
    \E a \in HandledSoFar :
        RunRaised(a) /\ _tasks[a]._name \in Upstream(_tasks, t._name)

\* C12: in the first call on an empty cache, no task skipped by the caller, a
\* task of the FAIL policy that depends, directly or through tasks of any
\* policy, on a task whose run raised does not have its run invoked.
C12_TransitiveBlock ==
    [][HandleStep =>
          LET i == tasks[idx]
          IN  (/\ _tasks[i].if_upstream_errors = "FAIL"
               /\ RaisedAbove(_tasks[i])
               /\ ~CheckpointValid(cache, fs, _tasks[i])
               /\ ncalls = 1
               /\ args.skip_tasks = {})
                  => ran' = ran]_vars

\* t depends, directly or through other tasks, on no task whose run raised
\* earlier in this call
Unrelated(t) ==
    \A a \in HandledSoFar :
        RunRaised(a) => _tasks[a]._name \notin Upstream(_tasks, t._name)

\* C13: in the first call on a freshly built Pipeline, a task that depends,
\* directly or transitively, on no task that failed is handled as if nothing
\* had failed: skipped when the caller says so, else skipped from its
\* checkpoint when the cache check accepts it, else its run is invoked.
C13_FailureIsolation ==
    [][HandleStep =>
          LET i == tasks[idx]
              t == _tasks[i]
          IN  (hist.pcalls = 1 /\ Unrelated(t)) =>
                  /\ SkipOnly(t, args) => log'[i] = "SKIP_USER"
                  /\ (~SkipOnly(t, args) /\ UseCached(cache, fs, t))
                         => log'[i] = "SKIP_CACHED"
                  /\ (~SkipOnly(t, args) /\ ~UseCached(cache, fs, t))
                         => (ran' = ran \cup {i} /\ log'[i] \in {"EXEC", "FAIL"})
                  /\ (~SkipOnly(t, args) /\ ~CheckpointValid(cache, fs, t))
                         => i \in ran']_vars

\* a task's run raised and a task handled after it, which does not depend on
\* it, was executed
C13_Witness ==
    /\ LoopDone
    /\ hist.pcalls = 1
    /\ \E a, i \in HandledSoFar :
          /\ RunRaised(a)
          /\ PositionIn(tasks, a) < PositionIn(tasks, i)
          /\ _tasks[a]._name \notin Upstream(_tasks, _tasks[i]._name)
          /\ log[i] = "EXEC"
          /\ _tasks[i]._executed

\* this loop iteration invokes the task's run and the run raises
RunRaisesStep ==
    /\ HandleStep
    /\ tasks[idx] \notin ran
    /\ tasks[idx] \in ran'
    /\ log'[tasks[idx]] = "FAIL"

\* C14: when a task's run raises, the task's name is added to failures,
\* is_executed is left as it was (false on freshly built tasks), nothing is
\* written to the cache, the loop goes on to the next scheduled task, and
\* execute returns without an exception.
C14_RunRaises ==
    [][/\ RunRaisesStep =>
            LET i == tasks[idx]
            IN  /\ failures' = failures \cup {_tasks[i]._name}
                /\ counts'.nfail = counts.nfail + 1
                /\ _tasks'[i]._executed = _tasks[i]._executed
                /\ (hist.pcalls = 1 => ~_tasks'[i]._executed)
                /\ cache' = cache
                /\ io'.writes = {}
                /\ pc' = "loop" /\ tasks' = tasks /\ idx' = idx + 1
                /\ raised' = "none"
       /\ (ReturnStep /\ failures # {}) => raised' = "none"]_vars

\* the first task's run raised, the second task was executed after it and
\* execute returned without an exception
C14_Witness ==
    /\ pc = "idle"
    /\ ncalls = 1
    /\ raised = "none"
    /\ Len(_tasks) = 2
    /\ \E a, i \in 1..2 :
          /\ a \in ran /\ log[a] = "FAIL"
          /\ _tasks[a]._name \in failures
          /\ ~_tasks[a]._executed
          /\ cache[_tasks[a]._name].tag = "ABSENT"
          /\ cache[HashKey(_tasks[a]._name)].tag = "ABSENT"
          /\ log[i] = "EXEC"

-----------------------------------------------------------------------------
(* The pre-flight of execute *)

\* execute is called
ExecuteStep == pc = "idle" /\ ncalls' = ncalls + 1

\* the tasks that the dependency names of task i resolve to
DepOn(ts, i) ==
    {j \in 1..Len(ts) : /\ ts[j]._name \in Range(ts[i]._dependency_names)
                        /\ \A k \in 1..Len(ts) : ts[k]._name = ts[j]._name => k <= j}

RECURSIVE DepClosure(_, _, _)
DepClosure(ts, S, n) ==
    IF n = 0 THEN S
    ELSE DepClosure(ts, S \cup UNION {DepOn(ts, j) : j \in S}, n - 1)

\* some task depends on itself, directly or through other tasks
DependencyCycle(ts) ==
    \E i \in 1..Len(ts) : i \in DepClosure(ts, DepOn(ts, i), Len(ts))

\* C15: with a dependency cycle among the added tasks execute raises (the
\* CycleError of the scheduler when every task has a run process) and no
\* task's run is invoked.
C15_CycleRaises ==
    [][(ExecuteStep /\ DependencyCycle(_tasks)) =>
          /\ raised' \in {"CycleError", "AttributeError"}
          /\ (\A i \in 1..Len(_tasks) : _tasks[i].has_run) => raised' = "CycleError"
          /\ pc' = "idle"
          /\ ran' = {}
          /\ _tasks' = _tasks]_vars

\* A depends on B and B on A: execute raised CycleError and ran nothing
C15_Witness ==
    /\ pc = "idle"
    /\ ncalls = 1
    /\ raised = "CycleError"
    /\ ran = {}
    /\ Len(_tasks) = 2
    /\ _tasks[1]._name = "A" /\ _tasks[1]._dependency_names = <<"B">>
    /\ _tasks[2]._name = "B" /\ _tasks[2]._dependency_names = <<"A">>
    /\ \A i \in 1..2 : ~_tasks[i]._executed /\ ~_tasks[i]._skipped

\* C16: when a task (of a pipeline whose task names are distinct) names a
\* dependency for which no task is added, execute raises before any run is
\* invoked, on the first call and on every later one (the KeyError of get_task
\* when validation passes and there is no cycle).
C16_UnresolvedRaises ==
    [][(ExecuteStep /\ UniqueNames(_tasks) /\ ~Resolved(_tasks)) =>
          /\ raised' \in {"KeyError", "CycleError", "AttributeError"}
          /\ ((\A i \in 1..Len(_tasks) : _tasks[i].has_run) /\ ~DependencyCycle(_tasks))
                 => raised' = "KeyError"
          /\ pc' = "idle"
          /\ ran' = {}
          /\ _tasks' = _tasks]_vars

\* the first call executed A; C, which depends on the unknown B, was added
\* after it and the second call raised KeyError and ran nothing
C16_Witness ==
    /\ pc = "idle"
    /\ ncalls = 2
    /\ raised = "KeyError"
    /\ ran = {}
    /\ Len(_tasks) = 2
    /\ _tasks[1]._name = "A" /\ _tasks[1]._executed
    /\ _tasks[2]._name = "C" /\ _tasks[2]._dependency_names = <<"B">>
    /\ ~_tasks[2]._executed /\ ~_tasks[2]._skipped

\* C17: when execute (on tasks of distinct names) aborts with a scheduling or
\* validation error, the cache is what it was before the call, with force=true
\* too, and no task's run-state has changed.
C17_FatalNoSideEffect ==
    [][(/\ ExecuteStep
        /\ UniqueNames(_tasks)
        /\ raised' \in {"CycleError", "KeyError", "AttributeError"}) =>
          /\ cache' = cache
          /\ _tasks' = _tasks
          /\ failures' = failures]_vars

\* the names, in add order, of the tasks that lack a run process
RECURSIVE MissingRun(_)
MissingRun(ts) ==
    IF ts = <<>> THEN <<>>
    ELSE (IF Head(ts).has_run THEN <<>> ELSE <<Head(ts)._name>>) \o MissingRun(Tail(ts))

\* C18: validate_tasks raises one error that names every added task without a
\* run process and raises nothing when there is none; execute checks this
\* first, so that with such a task no run is invoked and the cache is left as
\* it was, whatever the arguments.
C18_ValidateFirst ==
    [][ExecuteStep =>
          /\ validate_tasks(_tasks).names = MissingRun(_tasks)
          /\ (validate_tasks(_tasks).err = "AttributeError") <=> (MissingRun(_tasks) # <<>>)
          /\ MissingRun(_tasks) # <<>> =>
                /\ raised' = "AttributeError"
                /\ pc' = "idle"
                /\ ran' = {}
                /\ cache' = cache
                /\ _tasks' = _tasks
          /\ MissingRun(_tasks) = <<>> => raised' # "AttributeError"]_vars

\* A was executed and cached by the first call; two tasks without a run
\* process were added and the second call raised with the cache as it was
C18_Witness ==
    /\ pc = "idle"
    /\ ncalls = 2
    /\ raised = "AttributeError"
    /\ ran = {}
    /\ Len(MissingRun(_tasks)) = 2
    /\ validate_tasks(_tasks).names = MissingRun(_tasks)
    /\ \E n \in Names : cache[n].tag = "RESULTS"

\* C19: two tasks of one name are rejected with an error, by Pipeline.add or
\* at the latest when Pipeline.tasks derives the order: once the order was
\* read for a membership with a repeated name, an error was raised.
C19_DuplicateRejected ==
    (TasksRead /\ ~UniqueNames(_tasks)) => raised # "none"

\* C20: during and after the first execute call on freshly built tasks no task
\* has both is_executed and is_skipped.
C20_NotBoth ==
    hist.pcalls <= 1 =>
        \A i \in 1..Len(_tasks) : ~(_tasks[i]._executed /\ _tasks[i]._skipped)

\* the first call on fresh tasks has returned with one task executed and
\* another skipped
C20_Witness ==
    /\ pc = "idle"
    /\ hist.pcalls = 1
    /\ \E i, j \in 1..Len(_tasks) :
          /\ _tasks[i]._executed /\ ~_tasks[i]._skipped /\ log[i] = "EXEC"
          /\ _tasks[j]._skipped /\ ~_tasks[j]._executed
          /\ log[j] \in {"SKIP_USER", "SKIP_CACHED", "SKIP_DEPENDENCY"}

-----------------------------------------------------------------------------
\* the step is a call of task i's instrumented run that returned: inside
\* execute (logged EXEC) or made directly (the wrapper logged DONE)
RunReturnedStep(i) ==
    \/ HandleStep /\ tasks[idx] = i /\ i \in ran' /\ log'[i] = "EXEC"
    \/ pc = "idle" /\ pc' = "idle" /\ log'[i] = "DONE"

\* C21: is_executed is false after construction and turns true only in a step
\* in which the task's instrumented run returns without raising: not when run
\* raises, not when an auxiliary instrumented operation returns, not on any
\* skip path.
C21_ExecutedOnlyByRun ==
    [][\A i \in 1..Len(_tasks) :
          /\ log[i] = "NEW" => ~_tasks[i]._executed
          /\ log'[i] = "NEW" => ~_tasks'[i]._executed
          /\ (~_tasks[i]._executed /\ _tasks'[i]._executed) => RunReturnedStep(i)
          /\ log'[i] \in {"RUNNING", "RUNNING_AUX", "DONE_AUX", "FAIL", "SKIP_USER",
                          "SKIP_CACHED", "SKIP_DEPENDENCY", "FAIL_DEPENDENCY"}
                 /\ log'[i] # log[i]
             => _tasks'[i]._executed = _tasks[i]._executed]_vars

\* one task's auxiliary operation returned and its run raised in execute, both
\* leaving it not executed, while the other task's run returned
C21_Witness ==
    /\ Len(_tasks) = 2
    /\ \E i, j \in 1..2 :
          /\ log[i] = "DONE_AUX" /\ ~_tasks[i]._executed
          /\ _tasks[i]._name \in failures
          /\ log[j] = "EXEC" /\ _tasks[j]._executed

-----------------------------------------------------------------------------
\* the names of the added tasks whose policy is on_complete
OnComplete == {_tasks[i]._name : i \in {j \in 1..Len(_tasks) : _tasks[j].expire_results = "on_complete"}}

\* C22: the result an on_complete task stores during an execute call stays in
\* the cache, readable by the tasks handled after it, until the loop has
\* visited every task; it is deleted only by the cleanup that ends the call,
\* and once execute has returned get_result gives nothing for the task,
\* whether or not a task failed.
C22_OnCompleteResult ==
    [][\A n \in OnComplete :
          /\ pc = "loop" /\ hist.ret[n] # NoRun
                => cache[n] = ResultEntry(hist.ret[n])
          /\ cache[n].tag # "ABSENT" /\ cache'[n].tag = "ABSENT"
                => ReturnStep /\ LoopDone
          /\ pc' = "idle" => cache'[n].tag = "ABSENT" /\ CacheGet(cache', n) = None]_vars

\* execute has returned with a failure recorded; the on_complete task A ran
\* and returned a value, B was handled after it, and the result of A is gone
C22_Witness ==
    /\ pc = "idle" /\ ncalls > 0 /\ raised = "none"
    /\ "A" \in OnComplete
    /\ hist.ret["A"] \notin {NoRun, None}
    /\ Len(_tasks) = 2 /\ log[1] = "FAIL" /\ failures # {}
    /\ cache["A"].tag = "ABSENT"
    /\ cache[HashKey("A")].tag = "HASHES"

-----------------------------------------------------------------------------
\* execute has returned from a call that went through its loop
AfterExecute == pc = "idle" /\ ncalls > 0 /\ raised = "none"

\* the names of the tasks whose run returned None in the last call
StoredNone == {n \in Names : hist.ret[n] = None}

\* C23 as claimed: with expire_results_if_none no key maps to None after
\* execute returns; without it every None result a task stored in the call is
\* still in the cache after execute returns.
C23_NoneResults_AsClaimed ==
    AfterExecute =>
        IF expire_results_if_none
        THEN \A k \in Keys : cache[k].tag # "ABSENT" => cache[k].value # None
        ELSE \A n \in StoredNone : cache[n] = ResultEntry(None)

\* C23: with expire_results_if_none no key maps to None after execute
\* returns; without it a None result a task stored in the call is still in the
\* cache after execute returns unless the task's name is registered for
\* on_complete deletion, in which case the result key is absent.
C23_NoneResults ==
    AfterExecute =>
        IF expire_results_if_none
        THEN \A k \in Keys : cache[k].tag # "ABSENT" => cache[k].value # None
        ELSE \A n \in StoredNone :
                IF n \in _on_complete_deletions
                THEN cache[n] = Absent
                ELSE cache[n] = ResultEntry(None)

\* both configurations after a call in which a task's run returned None: the
\* result is gone and its hashes are kept, or the result is kept
C23_Witness ==
    /\ AfterExecute
    /\ "A" \in StoredNone
    /\ cache[HashKey("A")].tag = "HASHES"
    /\ \/ expire_results_if_none /\ cache["A"] = Absent /\ "A" \notin _on_complete_deletions
       \/ ~expire_results_if_none /\ cache["A"] = ResultEntry(None)

-----------------------------------------------------------------------------
\* the task's script cannot be read, or the input file that Task._inputs_hash
\* hashes (the last declared one, with hash_inputs set) cannot be read
Unreadable(f, t) ==
    \/ hash_file(f, t._script_path) = HASHERROR
    \/ /\ t.hash_inputs /\ t.input_files # <<>>
       /\ hash_file(f, t.input_files[Len(t.input_files)]) = HASHERROR

\* C24: when a task's script or a declared input file that is hashed cannot
\* be read at the time the loop checks its checkpoint, execute does not raise
\* and the task is not skipped as cached, whatever hashes entry was stored
\* before.
C24_UnreadableInvalidates ==
    [][HandleStep =>
          LET i == tasks[idx]
              t == _tasks[i]
          IN  Unreadable(fs, t) /\ ~SkipPerUser(t, args)
                 => raised' = "none" /\ log'[i] # "SKIP_CACHED"]_vars

-----------------------------------------------------------------------------
\* the interpreter exits
ExitStep == pc = "idle" /\ pc' = "exit"

\* C25: a cache delete that fails in the clean-up of execute (on_complete or
\* None results) or in an after_session exit hook is swallowed: execute
\* returns without raising, and the exit hooks raise nothing.
C25_CleanupBestEffort ==
    [][/\ ReturnStep => raised' = "none"
       /\ ExitStep => raised' = raised]_vars

-----------------------------------------------------------------------------
\* the number of the month of a date, counted from year 0
MonthIndex(date) == date.year * 12 + date.month - 1

\* C28: _add_months(date, n), for n positive, zero or negative, is the date
\* whose month lies n months from the month of date (the year carried), whose
\* day is the day of date, or the last day of the target month when that month
\* is shorter (February has 29 days in a leap year), and whose time of day is
\* that of date; adding 0 months gives the date itself.
C28_AddMonths ==
    evaluation.kind = "add_months" =>
        LET r == evaluation.date
            n == evaluation.months
            last == DaysInMonth(r.year, r.month)
        IN  /\ r.month \in 1..12
            /\ MonthIndex(r) = MonthIndex(now) + n
            /\ ValidDate(r.year, r.month, r.day)
            /\ r.day = (IF now.day <= last THEN now.day ELSE last)
            /\ r.second = now.second /\ r.micro = now.micro
            /\ n = 0 => r = now
            /\ (now.month = 1 /\ now.day = 31 /\ n = 1)
                  => r.year = now.year /\ r.month = 2
                     /\ r.day = (IF IsLeap(now.year) THEN 29 ELSE 28)
            /\ (now.month = 10 /\ now.day = 31 /\ n = 4)
                  => r.year = now.year + 1 /\ r.month = 2
                     /\ r.day = (IF IsLeap(now.year + 1) THEN 29 ELSE 28)

\* a negative number of months was added to the 31st of a month, the year was
\* carried backwards and the day clamped to the last day of February
C28_Witness ==
    /\ evaluation.kind = "add_months"
    /\ evaluation.months < 0
    /\ now.day = 31
    /\ evaluation.date.year = now.year - 1
    /\ evaluation.date.month = 2
    /\ evaluation.date.day = DaysInMonth(now.year - 1, 2)

-----------------------------------------------------------------------------
\* the requested days that are calendar days of the current month or of the
\* month after it
ValidInWindow(days, today) ==
    LET next == _add_months(today, 1)
    IN  {k \in 1..Len(days) :
            \/ ValidDate(today.year, today.month, days[k])
            \/ ValidDate(next.year, next.month, days[k])}

\* C27: monthly(days) raises exactly when none of the requested days is a
\* calendar day of the current month or of the next one; whenever one of them
\* is, it returns a TTL.
C27_MonthlyRaisesOnlyIfNoneValid ==
    evaluation.kind = "monthly" =>
        (evaluation.err = "ValueError" <=> ValidInWindow(evaluation.days, now) = {})

-----------------------------------------------------------------------------
\* C26: at every instant, weekly (given a weekday) and monthly (given days of
\* the month between 1 and 31) return a strictly positive number of seconds,
\* the seconds to the midnight of a day after today: for weekly the nearest
\* requested weekday 1 to 7 days ahead, a week ahead when only today's weekday
\* is requested; for monthly a requested day of the current month after today
\* or of the next month, never today.
C26_StrictlyFuture ==
    LET days == evaluation.days
        today == _get_midnight(now)
        target == evaluation.target
    IN  /\ (evaluation.kind = "weekly" /\ days # <<>>) =>
              /\ evaluation.err = "none"
              /\ target \in (today + 1)..(today + 7)
              /\ \E k \in 1..Len(days) : (target + 6) % 7 = days[k]
              /\ \A d \in (today + 1)..(target - 1) :
                    \A k \in 1..Len(days) : (d + 6) % 7 # days[k]
              /\ (\A k \in 1..Len(days) : days[k] = Weekday(now)) => target = today + 7
              /\ evaluation.seconds > 0
        /\ (evaluation.kind = "monthly" /\ days # <<>>
               /\ \A k \in 1..Len(days) : days[k] \in 1..31) =>
              /\ evaluation.err = "none"
              /\ target > today
              /\ evaluation.seconds > 0

-----------------------------------------------------------------------------
\* a dependency of t was handled earlier in this call and failed in it: its
\* run raised, or it was itself failed for its dependencies
FailedInThisCall(t) ==
    \E a \in HandledSoFar :
        /\ _tasks[a]._name \in Range(t._dependency_names)
        /\ log[a] \in {"FAIL", "FAIL_DEPENDENCY"}

\* C29: a task is failed or skipped for its dependencies in an execute call
\* only if one of its dependencies failed in that same call; a failure
\* recorded by an earlier call on the same Pipeline blocks nothing.
C29_SameCallOnly ==
    [][HandleStep =>
          LET i == tasks[idx]
          IN  log'[i] \in {"FAIL_DEPENDENCY", "SKIP_DEPENDENCY"}
                 => FailedInThisCall(_tasks[i])]_vars

-----------------------------------------------------------------------------
\* the task is forced: by force=true or by its name in force_tasks
Forced(t, a) == a.force \/ t._name \in a.force_tasks

\* C30: a task that is not forced (and not skipped by the caller), whose
\* checkpoint is valid and one of whose dependencies is in the failures set,
\* is skipped as cached: is_skipped is set, its run is not invoked, it is not
\* failed, and its checkpointed result stays in the cache as the task's
\* result.
C30_CachedBeforeBlocked ==
    [][HandleStep =>
          LET i == tasks[idx]
              t == _tasks[i]
          IN  (/\ CheckpointValid(cache, fs, t)
               /\ ~Forced(t, args)
               /\ ~SkipPerUser(t, args)
               /\ failed_deps(t, failures) # {})
                  => /\ log'[i] = "SKIP_CACHED"
                     /\ _tasks'[i]._skipped
                     /\ ran' = ran
                     /\ t._name \notin failures' \ failures
                     /\ cache' = cache]_vars

-----------------------------------------------------------------------------
\* the step handles task i and i's run returns in it
RunReturnsStep(i) ==
    HandleStep /\ tasks[idx] = i /\ i \in ran' /\ log'[i] # "FAIL"

\* C31: whenever a task's run returns inside execute, the result entry (the
\* returned value) and the hashes entry (the task's present script and input
\* hashes) are both in the cache when the next task is considered; and in no
\* state does a result entry exist without the hashes entry of its task.
C31_StoredAsOneUnit ==
    [][/\ \A i \in 1..Len(_tasks) :
             RunReturnsStep(i) =>
                 /\ cache'[_tasks[i]._name] = ResultEntry(hist'.ret[_tasks[i]._name])
                 /\ cache'[HashKey(_tasks[i]._name)]
                       = HashesEntry(_script_hash(fs, _tasks[i]), _inputs_hash(fs, _tasks[i]))
       /\ \A n \in Names :
             /\ cache[n].tag = "RESULTS" => cache[HashKey(n)].tag = "HASHES"
             /\ cache'[n].tag = "RESULTS" => cache'[HashKey(n)].tag = "HASHES"]_vars

-----------------------------------------------------------------------------
\* C32: the eviction of execute(force=true) leaves every hashes entry as it
\* was, and a hashes entry changes only in the step in which its task's run
\* has returned and the task's entries are written again.
C32_ForceKeepsHashes ==
    [][\A n \in Names :
          /\ (ExecuteStep /\ args'.force) =>
                 /\ cache'[HashKey(n)] = cache[HashKey(n)]
                 /\ cache'[n].tag = "ABSENT"
          /\ cache'[HashKey(n)] # cache[HashKey(n)] =>
                 /\ HandleStep
                 /\ _tasks[tasks[idx]]._name = n
                 /\ log'[tasks[idx]] = "EXEC"]_vars

\* a forced call has just evicted the result of a task whose hashes entry is
\* still there
C32_Witness ==
    /\ pc = "loop" /\ args.force /\ idx = 1
    /\ \E n \in Names :
          /\ hist.prev_ret[n] \notin {NoRun, None}
          /\ n \notin _on_complete_deletions
          /\ cache[n].tag = "ABSENT"
          /\ cache[HashKey(n)].tag = "HASHES"

-----------------------------------------------------------------------------
\* C33: the clean-up of an execute call consumes the on_complete
\* registrations: after it the deferred-deletion list is empty, so a later
\* execute call does not delete those keys again.
C33_RegistrationConsumed ==
    [][ReturnStep => _on_complete_deletions' = {}]_vars

-----------------------------------------------------------------------------
\* C34: the result of a task built without an expiration policy (the
\* after_session policy) is deleted when the process exits, and the first
\* execute call of the next process invokes the task's run (unless the caller
\* skips it or a dependency failed) instead of skipping it as cached.
C34_DeletedAtExit ==
    [][/\ ExitStep => \A n \in AtExitKeys(_tasks) : cache'[n].tag = "ABSENT"
       /\ HandleStep =>
             LET i == tasks[idx]
                 t == _tasks[i]
             IN  (/\ hist.exits > 0 /\ hist.pcalls = 1
                  /\ t.expire_results = "after_session"
                  /\ ~SkipPerUser(t, args)
                  /\ failed_deps(t, failures) = {})
                     => i \in ran' /\ log'[i] # "SKIP_CACHED"]_vars

-----------------------------------------------------------------------------
\* the pipeline's names are distinct and its order can be derived
WellFormed(ts) == UniqueNames(ts) /\ TasksOf(ts).err = "none"

\* some task's run raised in the call that has just returned
SomeRunRaised == \E i \in 1..Len(_tasks) : RunRaised(i)

\* C35 as claimed: is_complete is true exactly when every added task is
\* executed or skipped; true for an empty pipeline, false for a non-empty one
\* before its first execute, true after an execute in which every task was
\* executed or skipped, false after any execute in which a run raised.
C35_IsComplete_AsClaimed ==
    (pc = "idle" /\ WellFormed(_tasks)) =>
        /\ is_complete(_tasks).err = "none"
        /\ is_complete(_tasks).value
              <=> \A i \in 1..Len(_tasks) : _tasks[i]._executed \/ _tasks[i]._skipped
        /\ _tasks = <<>> => is_complete(_tasks).value
        /\ (_tasks # <<>> /\ ncalls = 0) => ~is_complete(_tasks).value
        /\ (AfterExecute /\ \A i \in 1..Len(_tasks) :
                               log[i] \in {"EXEC", "SKIP_USER", "SKIP_CACHED", "SKIP_DEPENDENCY"})
              => is_complete(_tasks).value
        /\ (AfterExecute /\ SomeRunRaised) => ~is_complete(_tasks).value

\* C35: as claimed, except that an execute in which a run raised leaves
\* is_complete false when it is the first call that reached the tasks; the
\* run-state is never reset, so after a later call in which the run of a task
\* raised that was executed or skipped before, is_complete can be true.
C35_IsComplete ==
    (pc = "idle" /\ WellFormed(_tasks)) =>
        /\ is_complete(_tasks).err = "none"
        /\ is_complete(_tasks).value
              <=> \A i \in 1..Len(_tasks) : _tasks[i]._executed \/ _tasks[i]._skipped
        /\ _tasks = <<>> => is_complete(_tasks).value
        /\ (_tasks # <<>> /\ ncalls = 0) => ~is_complete(_tasks).value
        /\ (AfterExecute /\ \A i \in 1..Len(_tasks) :
                               log[i] \in {"EXEC", "SKIP_USER", "SKIP_CACHED", "SKIP_DEPENDENCY"})
              => is_complete(_tasks).value
        /\ (AfterExecute /\ SomeRunRaised /\ ncalls = 1) => ~is_complete(_tasks).value

\* after a call in which one task was skipped as cached and the other
\* executed, is_complete is true
C35_Witness ==
    /\ AfterExecute /\ WellFormed(_tasks) /\ Len(_tasks) = 2
    /\ \E i, j \in 1..2 : log[i] = "SKIP_CACHED" /\ log[j] = "EXEC"
    /\ is_complete(_tasks).value

-----------------------------------------------------------------------------
\* how many of the three outcomes task i shows
OutcomesOf(i) ==
    (IF _tasks[i]._executed THEN 1 ELSE 0)
    + (IF _tasks[i]._skipped THEN 1 ELSE 0)
    + (IF _tasks[i]._name \in failures THEN 1 ELSE 0)

\* C36: when the loop of the first execute call on freshly built tasks is
\* over, every added task was visited exactly once and shows exactly one of
\* is_executed, is_skipped and membership in failures; the three counts of the
\* call sum to the number of tasks and equal the numbers of tasks executed,
\* skipped and in failures.
C36_OneOutcomeEach ==
    (LoopDone /\ hist.pcalls = 1) =>
        LET all == 1..Len(_tasks)
        IN  /\ Len(tasks) = Len(_tasks) /\ Range(tasks) = all
            /\ \A i \in all : OutcomesOf(i) = 1
            /\ counts.nexec + counts.nskip + counts.nfail = Len(_tasks)
            /\ counts.nexec = Cardinality({i \in all : _tasks[i]._executed})
            /\ counts.nskip = Cardinality({i \in all : _tasks[i]._skipped})
            /\ counts.nfail = Cardinality({i \in all : _tasks[i]._name \in failures})

-----------------------------------------------------------------------------
\* task a ran in the call before and its run was invoked again in this call,
\* which was not forced: its checkpoint was found invalid
ReExecuted(a) ==
    /\ a \in HandledSoFar
    /\ log[a] = "EXEC"
    /\ hist.prev_ret[_tasks[a]._name] # NoRun
    /\ ~Forced(_tasks[a], args)

\* C37: in an execute call, a task that directly depends on a task that
\* re-executed because its checkpoint was invalid is not skipped as cached.
C37_InvalidationPropagates ==
    \A a, b \in HandledSoFar :
        (/\ UniqueNames(_tasks)
         /\ ReExecuted(a)
         /\ _tasks[a]._name \in Range(_tasks[b]._dependency_names))
            => log[b] # "SKIP_CACHED"

-----------------------------------------------------------------------------
\* the loop body's outcomes in which the task's run raised or the task was
\* blocked by a failed dependency
FailedOrBlocked == {"FAIL", "FAIL_DEPENDENCY", "SKIP_DEPENDENCY"}

\* C38: the loop iteration in which a task's run raises, or in which the task
\* is blocked by a failed dependency, leaves the result entry and the hashes
\* entry stored under that task's name as they were.
C38_FailureKeepsEntries ==
    [][(HandleStep /\ log'[tasks[idx]] \in FailedOrBlocked) =>
          LET n == _tasks[tasks[idx]]._name
          IN  /\ cache'[n] = cache[n]
              /\ cache'[HashKey(n)] = cache[HashKey(n)]]_vars

\* a task whose run raised, or that was blocked, has just been handled while
\* the result and the hashes of an earlier successful run are in the cache
C38_Witness ==
    /\ pc = "loop" /\ idx > 1
    /\ LET i == tasks[idx - 1]
           n == _tasks[i]._name
       IN  /\ log[i] \in FailedOrBlocked
           /\ hist.prev_ret[n] \notin {NoRun, None}
           /\ cache[n] = ResultEntry(hist.prev_ret[n])
           /\ cache[HashKey(n)].tag = "HASHES"

-----------------------------------------------------------------------------
\* the loop of the second call on this Pipeline is over; the call before ran
\* every task to a result that is not None, every task's policy is never, this
\* call is not forced, and the files are what they were
SecondRunUnchanged ==
    /\ LoopDone
    /\ hist.pcalls = 2
    /\ UniqueNames(_tasks)
    /\ \A i \in 1..Len(_tasks) :
          /\ _tasks[i].expire_results = "never"
          /\ hist.prev_ret[_tasks[i]._name] \notin {NoRun, None, Unstorable}
    /\ ~args.force /\ args.force_tasks = {}
    /\ hist.fs_prev = fs

\* C39: a second execute call on the same Pipeline, not forced and with the
\* files unchanged, after a call in which every task's run returned a result
\* that is not None under the never policy, invokes no task's run, leaves
\* every result entry and hashes entry as the first call wrote it, and counts
\* every task as skipped.
C39_SecondRunIdempotent ==
    SecondRunUnchanged =>
        /\ ran = {}
        /\ counts = [nexec |-> 0, nskip |-> Len(_tasks), nfail |-> 0]
        /\ \A i \in 1..Len(_tasks) :
              LET t == _tasks[i]
              IN  /\ log[i] \in {"SKIP_USER", "SKIP_CACHED"}
                  /\ t._skipped
                  /\ cache[t._name] = ResultEntry(hist.prev_ret[t._name])
                  /\ cache[HashKey(t._name)]
                        = HashesEntry(_script_hash(hist.fs_prev, t),
                                      _inputs_hash(hist.fs_prev, t))
====
